---- MODULE Spec2Model ----
(***************************************************************************)
(* A model of hashsync: a primary row table (RowId -> row value) with live *)
(* secondary indexes (key -> set of RowId).  The store (HashSync) is used  *)
(* through `&mut self`, so one store operation runs at a time; it is       *)
(* modelled step by step (one step per lock-protected access), interleaved *)
(* with the steps of a reader that uses an IndexRead handle.               *)
(***************************************************************************)
EXTENDS Integers, Sequences, FiniteSets, Bags, TLC

\* ------------------------------------------------------------------ bounds
\* Row identifiers range over 0 .. MaxId - 1; the generator never exceeds MaxId.
\* (RowId wraps a usize; values near usize::MAX, where next() overflows, are
\* outside the model.)
MaxId == 3
\* Number of indexes created over the life of the store.
MaxIndexes == 2
\* Number of threads that hold IndexRead handles.
NumReaders == 2

\* ------------------------------------------------------------------ inputs
\* Row values: pairs (a, b), as in the tests of hashsync.rs.
Values == {<<1, 1>>, <<2, 2>>, <<2, 4>>}
\* Closures handed to the four registration routines.
ValueFns == {"first"}
ValueManyFns == {"evens"}
IdFns == {"id_first"}
IdManyFns == {"id_both"}

VARIABLES
    rows,      \* HashSync.rows: the shared row table, a map RowId -> RowT
    next_id,   \* HashSync.next_id
    indexes,   \* HashSync.indexes: the write handles, as positions in idxs
    idxs,      \* every Index created so far (shared by its read and write handle)
    op,        \* the store operation in progress and its position
    rd,        \* per reader thread: its IndexRead call in progress
    pre,       \* history: the store as it was when the operation was called
    lastIssued,\* history: the greatest id returned by insert so far (-1: none)
    maxFreed,  \* history: the greatest id removed by delete so far (-1: none)
    floor,     \* history: least id the next insert may return after the replaces since the last insert
    inserted   \* history: the last call, if an insert: its id and the rows and indexes before it

vars == <<rows, next_id, indexes, idxs, op, rd, pre, lastIssued, maxFreed, floor, inserted>>

\* ------------------------------------------------------------------ id.rs
RowIds == 0 .. (MaxId - 1)

RowIdNew(n) == n

RowIdNext(id) == id + 1

IndexedNew(id, value) == [id |-> id, value |-> value]

Max(a, b) == IF a >= b THEN a ELSE b

\* Option<T>: <<>> is None, <<x>> is Some(x).
None == <<>>
Some(x) == <<x>>

\* ------------------------------------------------------------------ closures
IsEven(n) == n % 2 = 0

\* Fn(&RowT) -> IndexKeyT
ValueFn(name, row) == row[1]

\* Fn(&RowT) -> Vec<IndexKeyT>
ValueManyFn(name, row) == SelectSeq(<<row[1], row[2]>>, IsEven)

\* Fn(&Indexed<RowT>) -> IndexKeyT
IdFn(name, indexed) == <<indexed.id, indexed.value[1]>>

\* Fn(&Indexed<RowT>) -> Vec<IndexKeyT>
IdManyFn(name, indexed) ==
    <<<<indexed.id, indexed.value[1]>>, <<indexed.id, indexed.value[2]>>>>

\* The closure stored in Index.index_function, after the wrapping done by
\* index, index_many and index_id on the way to index_id_many.
IndexFunction(fn, indexed) ==
    CASE fn.variant = "index" -> <<ValueFn(fn.name, indexed.value)>>
      [] fn.variant = "index_many" -> ValueManyFn(fn.name, indexed.value)
      [] fn.variant = "index_id" -> <<IdFn(fn.name, indexed)>>
      [] OTHER -> IdManyFn(fn.name, indexed)

\* ------------------------------------------------------------------ index.rs
\* A map as a function whose DOMAIN is the set of keys present.
MapPut(m, k, v) == [x \in (DOMAIN m) \cup {k} |-> IF x = k THEN v ELSE m[x]]

MapRemove(m, k) == [x \in (DOMAIN m) \ {k} |-> m[x]]

EmptyMap == [x \in {} |-> {}]

IndexNew(fn) == [fn |-> fn, index |-> EmptyMap]

\* Mutant: the key's set is overwritten, `self.index.insert(key, {id})`.
RECURSIVE InsertKeysOverwrite(_, _, _)
InsertKeysOverwrite(m, keys, id) ==
    IF keys = <<>> THEN m
    ELSE InsertKeysOverwrite(MapPut(m, Head(keys), {id}), Tail(keys), id)

\* Mutant: only the first key the closure emits is indexed.
InsertKeysFirstOnly(m, keys, id) ==
    IF keys = <<>> THEN m
    ELSE LET key == Head(keys)
             set == IF key \in DOMAIN m THEN m[key] ELSE {}
         IN MapPut(m, key, set \cup {id})

\* self.index.entry(key).or_default().insert(id), for each key in turn
RECURSIVE InsertKeys(_, _, _)
InsertKeys(m, keys, id) ==
    IF keys = <<>> THEN m
    ELSE LET key == Head(keys)
             set == IF key \in DOMAIN m THEN m[key] ELSE {}
         IN InsertKeys(MapPut(m, key, set \cup {id}), Tail(keys), id)

\* Mutant: a key whose set has become empty stays in the map.
RECURSIVE DeleteKeysKeepEmpty(_, _, _)
DeleteKeysKeepEmpty(m, keys, id) ==
    IF keys = <<>> THEN m
    ELSE LET key == Head(keys)
         IN IF key \in DOMAIN m
            THEN DeleteKeysKeepEmpty(MapPut(m, key, m[key] \ {id}), Tail(keys), id)
            ELSE DeleteKeysKeepEmpty(m, Tail(keys), id)

\* Index::delete's loop body, for each key in turn
RECURSIVE DeleteKeys(_, _, _)
DeleteKeys(m, keys, id) ==
    IF keys = <<>> THEN m
    ELSE LET key == Head(keys)
         IN IF key \in DOMAIN m
            THEN LET set == m[key] \ {id}
                 IN IF set = {}
                    THEN DeleteKeys(MapRemove(m, key), Tail(keys), id)
                    ELSE DeleteKeys(MapPut(m, key, set), Tail(keys), id)
            ELSE DeleteKeys(m, Tail(keys), id)

\* Mutant: the index is left as it was.
IndexInsertNoop(ix, indexed) == ix

IndexInsert(ix, indexed) ==
    [ix EXCEPT !.index = InsertKeys(ix.index, IndexFunction(ix.fn, indexed), indexed.id)]

\* Mutant: the index is left as it was.
IndexDeleteNoop(ix, indexed) == ix

IndexDelete(ix, indexed) ==
    [ix EXCEPT !.index = DeleteKeys(ix.index, IndexFunction(ix.fn, indexed), indexed.id)]

\* Index::get
IndexGet(ix, key) == IF key \in DOMAIN ix.index THEN ix.index[key] ELSE {}

\* Index::keys
IndexKeys(ix) == DOMAIN ix.index

\* Mutant: an absent row is returned with a default value instead of dropped.
IndexReadGetDefault(ix, table, key) ==
    {IndexedNew(id, IF id \in DOMAIN table THEN table[id] ELSE <<0, 0>>) :
        id \in IndexGet(ix, key)}

\* IndexRead::get: the candidate ids joined against the table; the result is
\* collected from a hash set of ids, so its order is unspecified.
IndexReadGet(ix, table, key) ==
    {IndexedNew(id, table[id]) : id \in {i \in IndexGet(ix, key) : i \in DOMAIN table}}

\* Mutant: a row is returned once for every time its closure emits the key,
\* as if a key-set were a list.
IndexReadGetValuesPerEmission(ix, table, key) ==
    LET got == IndexReadGet(ix, table, key)
        Emissions(x) == {n \in 1 .. Len(IndexFunction(ix.fn, x)) :
                            IndexFunction(ix.fn, x)[n] = key}
    IN [v \in {x.value : x \in got} |->
           Cardinality(UNION {{<<x, n>> : n \in Emissions(x)} :
                                 x \in {y \in got : y.value = v}})]

\* IndexRead::get_values: the values of get, as a bag
IndexReadGetValues(ix, table, key) ==
    LET got == IndexReadGet(ix, table, key)
    IN [v \in {x.value : x \in got} |-> Cardinality({x \in got : x.value = v})]

\* ------------------------------------------------------------------ hashsync.rs
\* HashSync::keys
Keys == DOMAIN rows

\* HashSync::by_id
ById(id) == IF id \in DOMAIN rows THEN Some(rows[id]) ELSE None

\* HashSync::by_id_indexed
ByIdIndexed(id) == IF id \in DOMAIN rows THEN Some(IndexedNew(id, rows[id])) ELSE None

\* self.rows.insert(id, value)
RowsInsert(table, id, value) == MapPut(table, id, value)

\* Mutant: the row is looked up but not removed.
RowsRemoveNoop(table, id) == table

\* self.rows.remove(&id)
RowsRemove(table, id) == MapRemove(table, id)

\* Mutant: only the first write handle is maintained.
IndexCountFirst == IF indexes = <<>> THEN 0 ELSE 1

\* for index in self.indexes.iter_mut(): the number of handles visited
IndexCount == Len(indexes)

Idle == [kind |-> "none", pc |-> "idle", id |-> 0, row |-> None, old |-> None,
         i |-> 0, ret |-> None, local |-> None]

Snapshot == [rows |-> rows, next_id |-> next_id, indexes |-> indexes, idxs |-> idxs]

\* The reader holds the table's read guard / the read guard of index h.
Readers == 1 .. NumReaders

ReaderHoldsRows ==
    \E r \in Readers :
        rd[r].kind = "get" /\ rd[r].pc \in {"rows_locked", "index_locked", "computed"}

ReaderHoldsIndex(h) ==
    \E r \in Readers : rd[r].h = h /\ rd[r].pc \in {"index_locked", "computed"}

\* `&mut self`: a store operation starts only when none is in progress.
Exclusive == op.pc = "idle"

NoRead == [kind |-> "none", pc |-> "idle", h |-> 0, key |-> None, res |-> {}]

Init ==
    /\ rows = EmptyMap
    /\ next_id = RowIdNew(0)
    /\ indexes = <<>>
    /\ idxs = <<>>
    /\ op = Idle
    /\ rd = [r \in Readers |-> NoRead]
    /\ pre = [rows |-> EmptyMap, next_id |-> 0, indexes |-> <<>>, idxs |-> <<>>]
    /\ lastIssued = -1
    /\ maxFreed = -1
    /\ floor = 0
    /\ inserted = None

history == <<lastIssued, maxFreed, floor, inserted>>

\* ---- insert (hashsync.rs 43-48) and insert_at (50-56)
Insert(row) ==
    /\ Exclusive
    /\ next_id < MaxId
    /\ op' = [Idle EXCEPT !.kind = "insert", !.pc = "insert_at", !.id = next_id,
                          !.row = Some(row), !.i = 1]
    /\ pre' = Snapshot
    /\ UNCHANGED <<rows, next_id, indexes, idxs, rd, history>>

\* index.insert(&indexed) on the next write handle, under the index's write lock
InsertAtIndex ==
    /\ op.pc = "insert_at"
    /\ op.i <= IndexCount
    /\ ~ReaderHoldsIndex(indexes[op.i])
    /\ idxs' = [idxs EXCEPT ![indexes[op.i]] = IndexInsert(@, IndexedNew(op.id, op.row[1]))]
    /\ op' = [op EXCEPT !.i = @ + 1]
    /\ UNCHANGED <<rows, next_id, indexes, rd, pre, history>>

\* self.rows.insert(id, indexed.into_value())
InsertAtRows ==
    /\ op.pc = "insert_at"
    /\ op.i > IndexCount
    /\ ~ReaderHoldsRows
    /\ rows' = RowsInsert(rows, op.id, op.row[1])
    /\ op' = [op EXCEPT !.pc = "next_id"]
    /\ UNCHANGED <<next_id, indexes, idxs, rd, pre, history>>

\* Mutant: the generator is not advanced.
InsertNextIdSame(gen) == gen

InsertNextId(gen) == RowIdNext(gen)

\* self.next_id = self.next_id.next(); id
InsertAdvance ==
    /\ op.pc = "next_id"
    /\ op.kind = "insert"
    /\ next_id' = InsertNextId(next_id)
    /\ op' = [op EXCEPT !.pc = "ret", !.ret = Some(op.id)]
    /\ UNCHANGED <<rows, indexes, idxs, rd, pre, history>>

\* ---- delete (hashsync.rs 58-68)
\* Where the operation stands once delete has returned `ret`.
AfterDelete(o, ret) ==
    IF o.kind = "delete"
    THEN [o EXCEPT !.pc = "ret", !.ret = ret]
    ELSE [o EXCEPT !.pc = "insert_at", !.i = 1]

Delete(id) ==
    /\ Exclusive
    /\ op' = [Idle EXCEPT !.kind = "delete", !.pc = "remove", !.id = id]
    /\ pre' = Snapshot
    /\ UNCHANGED <<rows, next_id, indexes, idxs, rd, history>>

\* let row = self.rows.remove(&id)
DeleteRemove ==
    /\ op.pc = "remove"
    /\ ~ReaderHoldsRows
    /\ IF op.id \in DOMAIN rows
       THEN /\ rows' = RowsRemove(rows, op.id)
            /\ op' = IF IndexCount = 0
                     THEN AfterDelete([op EXCEPT !.old = Some(rows[op.id])], Some(rows[op.id]))
                     ELSE [op EXCEPT !.old = Some(rows[op.id]), !.pc = "delete_idx", !.i = 1]
       ELSE /\ rows' = rows
            /\ op' = AfterDelete(op, None)
    /\ UNCHANGED <<next_id, indexes, idxs, rd, pre, history>>

\* index.delete(&indexed) on the next write handle, under the index's write lock
DeleteIndex ==
    /\ op.pc = "delete_idx"
    /\ op.i <= IndexCount
    /\ ~ReaderHoldsIndex(indexes[op.i])
    /\ idxs' = [idxs EXCEPT ![indexes[op.i]] = IndexDelete(@, IndexedNew(op.id, op.old[1]))]
    /\ op' = IF op.i = IndexCount
             THEN AfterDelete(op, op.old)
             ELSE [op EXCEPT !.i = @ + 1]
    /\ UNCHANGED <<rows, next_id, indexes, rd, pre, history>>

\* ---- replace (hashsync.rs 70-75)
Replace(id, row) ==
    /\ Exclusive
    /\ op' = [Idle EXCEPT !.kind = "replace", !.pc = "remove", !.id = id, !.row = Some(row)]
    /\ pre' = Snapshot
    /\ UNCHANGED <<rows, next_id, indexes, idxs, rd, history>>

\* Mutant: the generator is set to id.next(), without the max.
ReplaceNextIdNoMax(id, gen) == RowIdNext(id)

ReplaceNextId(id, gen) == Max(RowIdNext(id), gen)

\* self.next_id = max(id.next(), self.next_id)
ReplaceAdvance ==
    /\ op.pc = "next_id"
    /\ op.kind = "replace"
    /\ next_id' = ReplaceNextId(op.id, next_id)
    /\ op' = [op EXCEPT !.pc = "ret"]
    /\ UNCHANGED <<rows, indexes, idxs, rd, pre, history>>

\* ---- index registration (hashsync.rs 77-123)
\* Index::new(Box::new(index_fn))
Register(fn) ==
    /\ Exclusive
    /\ Len(idxs) < MaxIndexes
    /\ op' = [Idle EXCEPT !.kind = "index", !.pc = "backfill", !.local = Some(IndexNew(fn))]
    /\ pre' = Snapshot
    /\ UNCHANGED <<rows, next_id, indexes, idxs, rd, history>>

IndexIdMany(f) == Register([variant |-> "index_id_many", name |-> f])

IndexId(f) == Register([variant |-> "index_id", name |-> f])

IndexMany(f) == Register([variant |-> "index_many", name |-> f])

Index(f) == Register([variant |-> "index", name |-> f])

\* Mutant: the new index is not back-filled.
BackfillNone(ix, table, ids) == ix

\* for row in self.rows.iter() { index.insert(&Indexed::new(id, value)) }
RECURSIVE Backfill(_, _, _)
Backfill(ix, table, ids) ==
    IF ids = {} THEN ix
    ELSE LET id == CHOOSE x \in ids : TRUE
         IN Backfill(IndexInsert(ix, IndexedNew(id, table[id])), table, ids \ {id})

IndexBackfill ==
    /\ op.pc = "backfill"
    /\ op' = [op EXCEPT !.local = Some(Backfill(op.local[1], rows, DOMAIN rows)),
                        !.pc = "push"]
    /\ UNCHANGED <<rows, next_id, indexes, idxs, rd, pre, history>>

\* index.into_read_write(self.rows.clone()); self.indexes.push(index_write); index_read
IndexPush ==
    /\ op.pc = "push"
    /\ idxs' = Append(idxs, op.local[1])
    /\ indexes' = Append(indexes, Len(idxs) + 1)
    /\ op' = [op EXCEPT !.pc = "ret", !.ret = Some(Len(idxs) + 1), !.local = None]
    /\ UNCHANGED <<rows, next_id, rd, pre, history>>

\* ---- drop_indexes (hashsync.rs 125-131)
\* Mutant: the returned store starts from a fresh, empty table.
DropIndexesFresh(kept) ==
    /\ op.pc = "idle"
    /\ kept \/ \A r \in Readers : rd[r].pc = "idle"
    /\ indexes' = <<>>
    /\ idxs' = IF kept THEN idxs ELSE <<>>
    /\ rows' = EmptyMap
    /\ pre' = [rows |-> EmptyMap, next_id |-> next_id, indexes |-> <<>>, idxs |-> idxs']
    /\ UNCHANGED <<next_id, op, rd, history>>

\* The write handles are dropped with the old store.  An Index lives on only
\* while its IndexRead handle does: `kept` says whether the caller still
\* holds the read handles it was given.
DropIndexes(kept) ==
    /\ Exclusive
    /\ kept \/ \A r \in Readers : rd[r].pc = "idle"
    /\ indexes' = <<>>
    /\ idxs' = IF kept THEN idxs ELSE <<>>
    /\ pre' = [Snapshot EXCEPT !.indexes = <<>>, !.idxs = idxs']
    /\ UNCHANGED <<rows, next_id, op, rd, history>>

\* ---- the operation returns to its caller
Return ==
    /\ op.pc = "ret"
    /\ op' = Idle
    /\ pre' = Snapshot
    /\ UNCHANGED <<rows, next_id, indexes, idxs, rd, history>>

\* The same step, also recording the history of identifiers.
ReturnLogged ==
    /\ op.pc = "ret"
    /\ op' = Idle
    /\ pre' = Snapshot
    /\ lastIssued' = IF op.kind = "insert" THEN op.ret[1] ELSE lastIssued
    /\ maxFreed' = IF op.kind = "delete" /\ op.ret # None THEN Max(maxFreed, op.id) ELSE maxFreed
    /\ floor' = CASE op.kind = "insert" -> 0
                  [] op.kind = "replace" -> Max(floor, Max(op.id + 1, pre.next_id))
                  [] OTHER -> floor
    /\ UNCHANGED <<rows, next_id, indexes, idxs, rd, inserted>>

\* The same step, also recording whether the call was an insert.
ReturnInserted ==
    /\ op.pc = "ret"
    /\ op' = Idle
    /\ pre' = Snapshot
    /\ inserted' = IF op.kind = "insert"
                   THEN Some([id |-> op.ret[1], rows |-> pre.rows, idxs |-> pre.idxs])
                   ELSE None
    /\ UNCHANGED <<rows, next_id, indexes, idxs, rd, lastIssued, maxFreed, floor>>

\* ---- the reader (index.rs 92-121)
\* Every key the closure of an index can emit.
KeysOf(fn) ==
    UNION {{IndexFunction(fn, IndexedNew(id, v))[n] :
              n \in 1 .. Len(IndexFunction(fn, IndexedNew(id, v)))} :
           id \in RowIds, v \in Values}

\* let rows_guard = self.rows.read().unwrap()
ReadGetStart(r, h) ==
    /\ rd[r].pc = "idle"
    /\ rd' = [rd EXCEPT ![r] = [NoRead EXCEPT !.kind = "get", !.pc = "rows_locked", !.h = h]]
    /\ UNCHANGED <<rows, next_id, indexes, idxs, op, pre, history>>

\* let index_guard = self.index.read().unwrap()
ReadGetLockIndex(r) ==
    /\ rd[r].kind = "get"
    /\ rd[r].pc = "rows_locked"
    /\ rd' = [rd EXCEPT ![r].pc = "index_locked"]
    /\ UNCHANGED <<rows, next_id, indexes, idxs, op, pre, history>>

\* index_guard.get(key) joined against rows_guard; `key`, the argument of the
\* call, is first used here.
ReadGetCompute(r) ==
    /\ rd[r].kind = "get"
    /\ rd[r].pc = "index_locked"
    /\ \E key \in KeysOf(idxs[rd[r].h].fn) :
          rd' = [rd EXCEPT ![r].pc = "computed", ![r].key = Some(key),
                           ![r].res = IndexReadGet(idxs[rd[r].h], rows, key)]
    /\ UNCHANGED <<rows, next_id, indexes, idxs, op, pre, history>>

\* IndexRead::keys: let index_guard = self.index.read().unwrap()
ReadKeysStart(r, h) ==
    /\ rd[r].pc = "idle"
    /\ rd' = [rd EXCEPT ![r] = [NoRead EXCEPT !.kind = "keys", !.pc = "index_locked", !.h = h]]
    /\ UNCHANGED <<rows, next_id, indexes, idxs, op, pre, history>>

ReadKeysCompute(r) ==
    /\ rd[r].kind = "keys"
    /\ rd[r].pc = "index_locked"
    /\ rd' = [rd EXCEPT ![r].pc = "computed", ![r].res = IndexKeys(idxs[rd[r].h])]
    /\ UNCHANGED <<rows, next_id, indexes, idxs, op, pre, history>>

\* Mutant: the call never gives its guards back.
ReadReleaseKeepsGuards(r) ==
    /\ rd[r].pc = "computed"
    /\ UNCHANGED vars

\* the call returns and its guards are dropped
ReadRelease(r) ==
    /\ rd[r].pc = "computed"
    /\ rd' = [rd EXCEPT ![r] = NoRead]
    /\ UNCHANGED <<rows, next_id, indexes, idxs, op, pre, history>>

StoreStep ==
    \/ \E row \in Values : Insert(row)
    \/ InsertAtIndex
    \/ InsertAtRows
    \/ InsertAdvance
    \/ \E id \in RowIds : Delete(id)
    \/ DeleteRemove
    \/ DeleteIndex
    \/ \E id \in RowIds, row \in Values : Replace(id, row)
    \/ ReplaceAdvance
    \/ \E f \in ValueFns : Index(f)
    \/ \E f \in ValueManyFns : IndexMany(f)
    \/ \E f \in IdFns : IndexId(f)
    \/ \E f \in IdManyFns : IndexIdMany(f)
    \/ IndexBackfill
    \/ IndexPush

ReadStep(r) ==
    \/ \E h \in 1 .. Len(idxs) : ReadGetStart(r, h)
    \/ ReadGetLockIndex(r)
    \/ ReadGetCompute(r)
    \/ \E h \in 1 .. Len(idxs) : ReadKeysStart(r, h)
    \/ ReadKeysCompute(r)
    \/ ReadRelease(r)

\* The store with its indexes and one concurrent reader (reader 1).
Next ==
    \/ StoreStep
    \/ Return
    \/ ReadStep(1)

Spec == Init /\ [][Next]_vars

\* The store over its whole life, drop_indexes included, with the history of
\* the identifiers it hands out; the caller keeps no read handle.
NextIds ==
    \/ StoreStep
    \/ DropIndexes(FALSE)
    \/ ReturnLogged

SpecIds == Init /\ [][NextIds]_vars

\* ------------------------------------------------------------------ properties
\* No store operation is in progress: none was called, or the last one has
\* completed and is returning.
Quiescent == op.pc \in {"idle", "ret"}

\* The indexes whose write handle the store holds.
Registered == {indexes[n] : n \in 1 .. Len(indexes)}

\* The keys the closure of an index emits for a row.
KeySet(fn, id, value) ==
    LET keys == IndexFunction(fn, IndexedNew(id, value))
    IN {keys[n] : n \in 1 .. Len(keys)}

\* The live rows of `table` that produce key k under closure fn.
Producers(fn, table, k) == {id \in DOMAIN table : k \in KeySet(fn, id, table[id])}

\* The values of a set of rows of `table`, as a bag.
ValuesBag(table, ids) ==
    [v \in {table[id] : id \in ids} |-> Cardinality({id \in ids : table[id] = v})]

\* C1 (index completeness): once an operation has completed, for every
\* registered index and every key k, get_values(k) is exactly the bag of the
\* live row values whose key-extraction output contains k.
IndexCompleteness ==
    Quiescent =>
        \A h \in Registered : \A k \in KeysOf(idxs[h].fn) :
            IndexReadGetValues(idxs[h], rows, k)
                = ValuesBag(rows, Producers(idxs[h].fn, rows, k))

\* An insert has completed on a store with an index_many index in which one
\* live row produces no key and two live rows share a key.
IndexCompletenessWitness ==
    /\ op.kind = "insert" /\ op.pc = "ret"
    /\ \E h \in Registered :
        /\ idxs[h].fn.variant = "index_many"
        /\ \E id \in DOMAIN rows : KeySet(idxs[h].fn, id, rows[id]) = {}
        /\ \E k \in KeysOf(idxs[h].fn) :
              BagCardinality(IndexReadGetValues(idxs[h], rows, k)) = 2

\* C2 (post-delete shrinkage): when delete(id) has removed a live row, id is
\* in no key-set it was in before, in any registered index, and a key whose
\* key-set held only id is no longer among the index's keys().
PostDeleteShrinkage ==
    (op.kind = "delete" /\ op.pc = "ret" /\ op.ret # None) =>
        \A h \in Registered : \A k \in IndexKeys(pre.idxs[h]) :
            /\ op.id \notin IndexGet(idxs[h], k)
            /\ IndexGet(pre.idxs[h], k) = {op.id} => k \notin IndexKeys(idxs[h])
            /\ k \in IndexKeys(idxs[h]) => IndexGet(idxs[h], k) # {}

\* A delete has completed that emptied one key-set of an index and left
\* another row under another key of the same index.
PostDeleteShrinkageWitness ==
    /\ op.kind = "delete" /\ op.pc = "ret" /\ op.ret # None
    /\ \E h \in Registered :
        /\ \E k \in IndexKeys(pre.idxs[h]) :
              IndexGet(pre.idxs[h], k) = {op.id} /\ k \notin IndexKeys(idxs[h])
        /\ \E k \in IndexKeys(pre.idxs[h]) :
              op.id \in IndexGet(pre.idxs[h], k) /\ k \in IndexKeys(idxs[h])

\* C3 (late registration backfill): from the backfill scan to the return of
\* the registration the row table is the one the registration was called on
\* (no insert, delete or replace falls in between), the index built holds
\* every row live at registration, and the read handle returned answers every
\* key with exactly the rows that produce it.
LateRegistrationBackfill ==
    /\ (op.kind = "index" /\ op.pc = "push") =>
          /\ rows = pre.rows
          /\ indexes = pre.indexes
          /\ \A k \in KeysOf(op.local[1].fn) :
                IndexGet(op.local[1], k) = Producers(op.local[1].fn, pre.rows, k)
    /\ (op.kind = "index" /\ op.pc = "ret") =>
          /\ rows = pre.rows
          /\ indexes = Append(pre.indexes, op.ret[1])
          /\ \A k \in KeysOf(idxs[op.ret[1]].fn) :
                IndexReadGet(idxs[op.ret[1]], rows, k)
                    = {IndexedNew(id, pre.rows[id]) :
                         id \in Producers(idxs[op.ret[1]].fn, pre.rows, k)}

\* A registration has returned on a store that held two rows, one of them
\* under a key of the new index.
LateRegistrationBackfillWitness ==
    /\ op.kind = "index" /\ op.pc = "ret"
    /\ Cardinality(DOMAIN pre.rows) >= 2
    /\ IndexKeys(idxs[op.ret[1]]) # {}

\* C4 (replace): when replace(id, v) has completed, by_id(id) is v; in every
\* registered index id is under exactly the keys v produces; every other row
\* and the index entries of every other row are as before the call.
ReplacePost ==
    (op.kind = "replace" /\ op.pc = "ret") =>
        /\ ById(op.id) = op.row
        /\ \A id \in RowIds \ {op.id} :
              (id \in DOMAIN rows) = (id \in DOMAIN pre.rows)
              /\ (id \in DOMAIN rows => rows[id] = pre.rows[id])
        /\ \A h \in Registered : \A k \in KeysOf(idxs[h].fn) :
              /\ op.id \in IndexGet(idxs[h], k)
                    <=> k \in KeySet(idxs[h].fn, op.id, op.row[1])
              /\ IndexGet(idxs[h], k) \ {op.id} = IndexGet(pre.idxs[h], k) \ {op.id}

\* A replace has completed on a live row whose previous value produced a key
\* the new value does not, with another row in the table.
ReplacePostWitness ==
    /\ op.kind = "replace" /\ op.pc = "ret"
    /\ op.id \in DOMAIN pre.rows
    /\ DOMAIN rows # {op.id}
    /\ \E h \in Registered :
          KeySet(idxs[h].fn, op.id, pre.rows[op.id])
              \ KeySet(idxs[h].fn, op.id, op.row[1]) # {}

\* C5 (replace advances the generator): when replace(id, v) has completed the
\* generator is max(id.next(), generator before the call), and the first
\* insert after it returns an identifier greater than id and not less than
\* the generator before the replace (floor records both, for every replace
\* since the last insert).
ReplaceAdvancesGenerator ==
    /\ (op.kind = "replace" /\ op.pc = "ret") =>
          /\ next_id = Max(op.id + 1, pre.next_id)
          /\ next_id > op.id
          /\ next_id >= pre.next_id
    /\ (op.kind = "insert" /\ op.pc = "ret") => op.ret[1] >= floor

\* The first insert of a store returns id + 1 after a replace at an
\* identifier id >= 1 that was never used.
ReplaceAdvancesGeneratorWitness ==
    /\ op.kind = "insert" /\ op.pc = "ret"
    /\ lastIssued = -1
    /\ floor >= 2
    /\ op.ret[1] = floor

\* C6 (identifiers never reused): the identifier an insert returns is
\* greater than every identifier an earlier insert returned and than every
\* identifier a delete has freed.
InsertIdsIncrease ==
    (op.kind = "insert" /\ op.pc = "ret") =>
        /\ op.ret[1] > lastIssued
        /\ op.ret[1] > maxFreed

\* An insert returns after the identifier of the previous insert was freed
\* by a delete.
InsertIdsIncreaseWitness ==
    /\ op.kind = "insert" /\ op.pc = "ret"
    /\ lastIssued >= 0
    /\ maxFreed = lastIssued
    /\ lastIssued \notin DOMAIN rows

\* C7 (delete): a delete of an identifier that is not live returns none and
\* leaves the table, every index, the index list and the generator as they
\* were; a delete of a live identifier returns the value that was stored,
\* and afterwards by_id(id) is absent and id is not in keys().
DeleteContract ==
    (op.kind = "delete" /\ op.pc = "ret") =>
        IF op.id \in DOMAIN pre.rows
        THEN /\ op.ret = Some(pre.rows[op.id])
             /\ ById(op.id) = None
             /\ op.id \notin Keys
             /\ next_id = pre.next_id
        ELSE /\ op.ret = None
             /\ rows = pre.rows
             /\ idxs = pre.idxs
             /\ indexes = pre.indexes
             /\ next_id = pre.next_id

\* A delete of an identifier that an earlier delete freed returns none, on
\* a store with an index and another row.
DeleteContractWitness ==
    /\ op.kind = "delete" /\ op.pc = "ret"
    /\ op.ret = None
    /\ op.id = maxFreed
    /\ indexes # <<>>
    /\ rows # EmptyMap

\* C8 (staleness-tolerant read): while a get holds its result under its read
\* guards, every (id, value) pair of the result is a row of the table with
\* that value, whatever step of insert, delete or replace the store is at.
StalenessTolerantRead ==
    \A r \in Readers :
        (rd[r].kind = "get" /\ rd[r].pc = "computed") =>
            \A x \in rd[r].res : x.id \in DOMAIN rows /\ rows[x.id] = x.value

\* A get has returned a row while the key-set it read also held an
\* identifier whose row is absent from the table.
StalenessTolerantReadWitness ==
    /\ rd[1].kind = "get" /\ rd[1].pc = "computed"
    /\ rd[1].res # {}
    /\ IndexGet(idxs[rd[1].h], rd[1].key[1]) \ DOMAIN rows # {}

\* C9 (multi-key fan-out): in a registered index built from a many-valued
\* closure, once an operation has completed every live row is returned by
\* get_values(k) for every key k the closure emits for it; and when a delete
\* has removed a row, for each of its keys get_values has lost exactly one
\* copy of the row's value (the rows that share the key remain).
MultiKeyFanOut ==
    \A h \in Registered :
        idxs[h].fn.variant \in {"index_many", "index_id_many"} =>
            /\ Quiescent =>
                  \A id \in DOMAIN rows : \A k \in KeySet(idxs[h].fn, id, rows[id]) :
                      /\ IndexedNew(id, rows[id]) \in IndexReadGet(idxs[h], rows, k)
                      /\ BagIn(rows[id], IndexReadGetValues(idxs[h], rows, k))
            /\ (op.kind = "delete" /\ op.pc = "ret" /\ op.ret # None) =>
                  \A k \in KeySet(idxs[h].fn, op.id, op.ret[1]) :
                      /\ op.id \notin {x.id : x \in IndexReadGet(idxs[h], rows, k)}
                      /\ IndexReadGetValues(idxs[h], rows, k) (+) SetToBag({op.ret[1]})
                            = IndexReadGetValues(pre.idxs[h], pre.rows, k)

\* A delete has removed a row that was under two keys of an index_many
\* index, and another row remains under one of them.
MultiKeyFanOutWitness ==
    /\ op.kind = "delete" /\ op.pc = "ret" /\ op.ret # None
    /\ \E h \in Registered :
        /\ idxs[h].fn.variant = "index_many"
        /\ Cardinality(KeySet(idxs[h].fn, op.id, op.ret[1])) = 2
        /\ \E k \in KeySet(idxs[h].fn, op.id, op.ret[1]) :
              IndexReadGet(idxs[h], rows, k) # {}

\* C10 (independent indexes): with two indexes registered under different
\* closures, once an operation has completed the key-set mapping of each is
\* the one an index built alone from the table with that closure has.
IndependentIndexes ==
    (Quiescent /\ Len(indexes) = 2 /\ idxs[indexes[1]].fn # idxs[indexes[2]].fn) =>
        \A h \in Registered :
            idxs[h].index = Backfill(IndexNew(idxs[h].fn), rows, DOMAIN rows).index

\* A replace has completed on a live row of a store with two indexes of
\* different closures, and it changed the mapping of one index only.
IndependentIndexesWitness ==
    /\ op.kind = "replace" /\ op.pc = "ret"
    /\ op.id \in DOMAIN pre.rows
    /\ Len(indexes) = 2
    /\ idxs[indexes[1]].fn # idxs[indexes[2]].fn
    /\ idxs[indexes[1]].index = pre.idxs[indexes[1]].index
    /\ idxs[indexes[2]].index # pre.idxs[indexes[2]].index

\* The store over its whole life when the caller keeps every read handle:
\* after drop_indexes the handles still reach their Index and the table.
\* (Indexes are registered through index_many here: every routine ends in
\* index_id_many, and a dropped Index keeps whatever it held.)
NextDrop ==
    \/ \E row \in Values : Insert(row)
    \/ InsertAtIndex
    \/ InsertAtRows
    \/ InsertAdvance
    \/ \E id \in RowIds : Delete(id)
    \/ DeleteRemove
    \/ DeleteIndex
    \/ \E id \in RowIds, row \in Values : Replace(id, row)
    \/ ReplaceAdvance
    \/ \E f \in ValueManyFns : IndexMany(f)
    \/ IndexBackfill
    \/ IndexPush
    \/ DropIndexes(TRUE)
    \/ Return

SpecDrop == Init /\ [][NextDrop]_vars

\* The read handle h answers every key with exactly the live rows producing it.
Exact(h) ==
    \A k \in KeysOf(idxs[h].fn) :
        IndexReadGetValues(idxs[h], rows, k)
            = ValuesBag(rows, Producers(idxs[h].fn, rows, k))

\* C11 as stated (drop_indexes isolation): once an operation has completed,
\* every read handle ever handed out, dropped or not, answers every key with
\* exactly the live rows producing it.
DropIndexesIsolation ==
    Quiescent => \A h \in 1 .. Len(idxs) : Exact(h)

\* C11 as amended: drop_indexes leaves the table, the generator and the
\* Index of every handle as they were, so by_id and keys answer as before and
\* every handle is exact right after the call; a dropped handle that is exact
\* stays exact through every step of a delete or a registration (it is no
\* longer maintained by insert and replace).
DropIndexesIsolationAmended ==
    [][/\ (indexes # <<>> /\ indexes' = <<>>) =>
            /\ rows' = rows
            /\ next_id' = next_id
            /\ idxs' = idxs
            /\ \A h \in Registered : Exact(h)'
       /\ \A h \in 1 .. Len(idxs) :
            (/\ h \notin Registered'
             /\ Exact(h)
             /\ op.kind \notin {"insert", "replace"}
             /\ op'.kind \notin {"insert", "replace"}) => Exact(h)']_vars

\* A delete has removed a row that a dropped handle still lists, another row
\* remains under the handle, and the handle answers exactly.
DropIndexesIsolationWitness ==
    /\ indexes = <<>>
    /\ Len(idxs) >= 1
    /\ op.kind = "delete" /\ op.pc = "ret" /\ op.ret # None
    /\ \E k \in IndexKeys(idxs[1]) : op.id \in IndexGet(idxs[1], k)
    /\ \E k \in IndexKeys(idxs[1]) : IndexReadGet(idxs[1], rows, k) # {}
    /\ Exact(1)

\* C12 (keys reports only live, non-empty keys): once an operation has
\* completed, no key of a registered index maps to an empty identifier set,
\* keys() is exactly the set of keys produced by at least one row of the
\* table, and a keys() call that has computed its result holds that set.
KeysLiveNonEmpty ==
    Quiescent =>
        /\ \A h \in Registered :
              /\ \A k \in IndexKeys(idxs[h]) : IndexGet(idxs[h], k) # {}
              /\ IndexKeys(idxs[h])
                    = {k \in KeysOf(idxs[h].fn) : Producers(idxs[h].fn, rows, k) # {}}
        /\ \A r \in Readers :
              (rd[r].kind = "keys" /\ rd[r].pc = "computed" /\ rd[r].h \in Registered) =>
                  rd[r].res = {k \in KeysOf(idxs[rd[r].h].fn) :
                                  Producers(idxs[rd[r].h].fn, rows, k) # {}}

\* A delete has just emptied the key-set of a key that another row still
\* keeps alongside, and a keys() call reports the keys that are left.
KeysLiveNonEmptyWitness ==
    /\ op.kind = "delete" /\ op.pc = "ret" /\ op.ret # None
    /\ rows # EmptyMap
    /\ \E h \in Registered :
          /\ \E k \in IndexKeys(pre.idxs[h]) : k \notin IndexKeys(idxs[h])
          /\ IndexKeys(idxs[h]) # {}
          /\ rd[1].kind = "keys" /\ rd[1].pc = "computed" /\ rd[1].h = h
          /\ rd[1].res = IndexKeys(idxs[h])

\* C13 (index-before-table ordering): in every state, the intermediate states
\* of insert, delete and replace included, every row of the table has its
\* identifier in the key-set of every key it produces in every registered
\* index; while insert_at is updating the indexes the row is not yet in the
\* table, and while delete is updating them it is already out of it.
IndexBeforeTable ==
    /\ \A h \in Registered : \A id \in DOMAIN rows :
          \A k \in KeySet(idxs[h].fn, id, rows[id]) : id \in IndexGet(idxs[h], k)
    /\ op.pc \in {"insert_at", "delete_idx"} => op.id \notin DOMAIN rows

\* A replace of a live row is half way through its insert_at: the first of two
\* indexes already holds the new keys, the second does not, and the row is not
\* in the table, which holds another row.
IndexBeforeTableWitness ==
    /\ op.kind = "replace" /\ op.pc = "insert_at" /\ op.old # None
    /\ Len(indexes) = 2 /\ op.i = 2
    /\ rows # EmptyMap
    /\ \E k \in KeySet(idxs[indexes[1]].fn, op.id, op.row[1]) :
          op.id \in IndexGet(idxs[indexes[1]], k)
    /\ \E k \in KeySet(idxs[indexes[2]].fn, op.id, op.row[1]) :
          op.id \notin IndexGet(idxs[indexes[2]], k)

\* The gap of a replace of a live row: its delete is done, its insert_at has
\* not touched anything yet.
ReplaceGap ==
    /\ op.kind = "replace" /\ op.pc = "insert_at" /\ op.i = 1
    /\ op.old # None

\* C14 (replace is not atomic): between the internal delete and insert of a
\* replace of a live row, the row that was live before is absent from the
\* table and from every key-set of every registered index, no get that has
\* computed returns it, and once the replace returns the row is live again.
ReplaceNotAtomic ==
    /\ ReplaceGap =>
          /\ op.id \in DOMAIN pre.rows
          /\ op.id \notin DOMAIN rows
          /\ \A h \in Registered : \A k \in IndexKeys(idxs[h]) :
                op.id \notin IndexGet(idxs[h], k)
          /\ \A r \in Readers :
                (rd[r].kind = "get" /\ rd[r].pc = "computed") =>
                    \A x \in rd[r].res : x.id # op.id
    /\ (op.kind = "replace" /\ op.pc = "ret") =>
          op.id \in DOMAIN rows /\ rows[op.id] = op.row[1]

\* In the gap, a reader's get of a key under which the row was returned before
\* the replace has come back without the row.
ReplaceNotAtomicWitness ==
    /\ ReplaceGap
    /\ Registered # {}
    /\ rd[1].kind = "get" /\ rd[1].pc = "computed"
    /\ op.id \in {x.id : x \in IndexReadGet(pre.idxs[rd[1].h], pre.rows, rd[1].key[1])}
    /\ op.id \notin {x.id : x \in rd[1].res}
    /\ rd[1].key[1] \in KeySet(idxs[rd[1].h].fn, op.id, op.row[1])

\* The store and its indexes with every reader thread calling keys() on the
\* read handles.
NextKeys ==
    \/ StoreStep
    \/ Return
    \/ \E r \in Readers :
          \/ \E h \in 1 .. Len(idxs) : ReadKeysStart(r, h)
          \/ ReadKeysCompute(r)
          \/ ReadRelease(r)

SpecKeys == Init /\ [][NextKeys]_vars

\* Identifier id is in some key-set of index ix.
Holds(ix, id) == \E k \in IndexKeys(ix) : id \in IndexGet(ix, k)

\* C15 (no cross-index atomicity): while a mutation fans out over the
\* registered indexes, the indexes it has visited are in their post-mutation
\* state (an inserted row is under all its keys, a deleted row under none), the
\* indexes it has not visited yet are still as before the mutation, and a
\* keys() call that has computed reports the index as it is.
NoCrossIndexAtomicity ==
    /\ op.pc = "insert_at" =>
          \A n \in 1 .. Len(indexes) :
              IF n < op.i
              THEN \A k \in KeySet(idxs[indexes[n]].fn, op.id, op.row[1]) :
                       op.id \in IndexGet(idxs[indexes[n]], k)
              ELSE /\ ~Holds(idxs[indexes[n]], op.id)
                   /\ op.kind = "insert" => idxs[indexes[n]] = pre.idxs[indexes[n]]
    /\ op.pc = "delete_idx" =>
          \A n \in 1 .. Len(indexes) :
              IF n < op.i
              THEN ~Holds(idxs[indexes[n]], op.id)
              ELSE idxs[indexes[n]] = pre.idxs[indexes[n]]
    /\ \A r \in Readers :
          (rd[r].kind = "keys" /\ rd[r].pc = "computed") =>
              rd[r].res = IndexKeys(idxs[rd[r].h])

\* An insert has updated the first of two indexes only: a reader of the first
\* index sees a key the row brought, a reader of the second still sees the
\* keys from before the insert, which lack a key the row will bring.
NoCrossIndexAtomicityWitness ==
    /\ op.kind = "insert" /\ op.pc = "insert_at"
    /\ Len(indexes) = 2 /\ op.i = 2
    /\ rd[1].kind = "keys" /\ rd[1].pc = "computed" /\ rd[1].h = indexes[1]
    /\ rd[2].kind = "keys" /\ rd[2].pc = "computed" /\ rd[2].h = indexes[2]
    /\ \E k \in KeySet(idxs[indexes[1]].fn, op.id, op.row[1]) :
          k \in rd[1].res /\ k \notin IndexKeys(pre.idxs[indexes[1]])
    /\ rd[2].res = IndexKeys(pre.idxs[indexes[2]])
    /\ KeySet(idxs[indexes[2]].fn, op.id, op.row[1]) \ rd[2].res # {}

\* The store with its indexes, remembering an insert until the call after it
\* has returned.
NextUndo ==
    \/ StoreStep
    \/ ReturnInserted

SpecUndo == Init /\ [][NextUndo]_vars

\* C16 (delete presents the value that was indexed): delete hands every index
\* the value it took out of the table for that id, and when delete(id) is the
\* call after the insert that returned id, on its return the row table and the
\* key-set mapping of every index are as they were before the insert.
InsertDeleteRestores ==
    /\ (op.kind = "delete" /\ op.pc = "delete_idx") =>
          op.old = Some(pre.rows[op.id])
    /\ (/\ op.kind = "delete" /\ op.pc = "ret"
        /\ inserted # None /\ op.id = inserted[1].id) =>
          /\ op.ret # None
          /\ rows = inserted[1].rows
          /\ \A h \in 1 .. Len(idxs) : idxs[h].index = inserted[1].idxs[h].index

\* The delete of a freshly inserted row has returned; the insert had put the
\* row under a key no other row produces and under a key another row shares.
InsertDeleteRestoresWitness ==
    /\ op.kind = "delete" /\ op.pc = "ret"
    /\ inserted # None /\ op.id = inserted[1].id
    /\ rows # EmptyMap
    /\ \E h \in Registered :
          /\ \E k \in IndexKeys(pre.idxs[h]) : k \notin IndexKeys(idxs[h])
          /\ \E k \in IndexKeys(idxs[h]) : IndexGet(pre.idxs[h], k) # IndexGet(idxs[h], k)

GeneratorAboveTable ==
    /\ Quiescent => \A id \in DOMAIN rows : id < next_id
    /\ (op.kind = "insert" /\ op.pc = "insert_at" /\ op.i = 1) =>
          /\ op.id \notin DOMAIN rows
          /\ \A h \in Registered : ~Holds(idxs[h], op.id)

\* A replace has written a row at an identifier the generator had not reached,
\* above another live row, after an earlier delete; the generator is now one
\* past it.
GeneratorAboveTableWitness ==
    /\ op.kind = "replace" /\ op.pc = "ret"
    /\ op.id > pre.next_id
    /\ next_id = op.id + 1
    /\ maxFreed >= 0
    /\ Cardinality(DOMAIN rows) >= 2

\* C19 (reads are sound at every interleaving): in every state, for every
\* registered index, an identifier that is in the key-set of key k and in the
\* row table has a current value that produces k; so every row a get(k) has
\* computed produces k with its current value.
ReadsSound ==
    /\ \A h \in Registered : \A k \in IndexKeys(idxs[h]) :
          \A id \in IndexGet(idxs[h], k) \cap DOMAIN rows :
              k \in KeySet(idxs[h].fn, id, rows[id])
    /\ \A r \in Readers :
          (rd[r].kind = "get" /\ rd[r].pc = "computed" /\ rd[r].h \in Registered) =>
              \A x \in rd[r].res :
                  rd[r].key[1] \in KeySet(idxs[rd[r].h].fn, x.id, rows[x.id])

\* A replace that changes the keys of a live row has written the new keys to
\* the first index and not yet the row to the table; a get of one of the new
\* keys on that index has returned another row and not the row in flight.
ReadsSoundWitness ==
    /\ op.kind = "replace" /\ op.pc = "insert_at" /\ op.i >= 2
    /\ op.old # None /\ op.old[1] # op.row[1]
    /\ rd[1].kind = "get" /\ rd[1].pc = "computed" /\ rd[1].h = indexes[1]
    /\ op.id \in IndexGet(idxs[rd[1].h], rd[1].key[1])
    /\ rd[1].res # {}
    /\ op.id \notin {x.id : x \in rd[1].res}

\* A store mutating one row, registering indexes, and every reader thread
\* calling get and keys on the read handles.
NextLive ==
    \/ Insert(<<2, 2>>)
    \/ InsertAtIndex
    \/ InsertAtRows
    \/ InsertAdvance
    \/ Delete(0)
    \/ DeleteRemove
    \/ DeleteIndex
    \/ Replace(0, <<2, 4>>)
    \/ ReplaceAdvance
    \/ \E f \in ValueManyFns : IndexMany(f)
    \/ IndexBackfill
    \/ IndexPush
    \/ Return
    \/ \E r \in Readers : ReadStep(r)

\* Fair scheduling: a step of a call under way that stays possible is taken.
\* A writer step waits for one lock and holds none while it waits; the other
\* steps of a store operation, and the steps of a reader's call after its
\* start, wait for nothing (a read lock is never refused, since no writer
\* step keeps a lock).
Fairness ==
    /\ WF_vars(InsertAtIndex)
    /\ WF_vars(InsertAtRows)
    /\ WF_vars(DeleteRemove)
    /\ WF_vars(DeleteIndex)
    /\ WF_vars(InsertAdvance \/ ReplaceAdvance \/ IndexBackfill \/ IndexPush \/ Return)
    /\ \A r \in Readers :
          WF_vars(ReadGetLockIndex(r) \/ ReadGetCompute(r) \/ ReadKeysCompute(r)
                    \/ ReadRelease(r))

\* A reader starts a call on a read handle.
ReadStarts ==
    \E r \in Readers : \E h \in 1 .. Len(idxs) :
        ReadGetStart(r, h) \/ ReadKeysStart(r, h)

\* The calls under way are any number of calls, not an endless stream of
\* them: from some point on no reader starts a new one.
FinitelyManyCalls == <>[][~ReadStarts]_vars

SpecLive == Init /\ [][NextLive]_vars /\ Fairness /\ FinitelyManyCalls

\* C20 (no deadlock): under fair scheduling every store operation that has
\* been called returns, and every get or keys call that a reader has started
\* returns, whatever the interleaving of the readers with the store.
NoDeadlock ==
    /\ (op.pc # "idle") ~> (op.pc = "idle")
    /\ \A r \in Readers : (rd[r].pc # "idle") ~> (rd[r].pc = "idle")

\* A replace waits for the write lock of its second index, which one reader
\* holds inside a get, with the table's read lock, while the other reader
\* holds the first index inside a keys.
NoDeadlockWitness ==
    /\ op.kind = "replace" /\ op.pc = "insert_at"
    /\ Len(indexes) = 2 /\ op.i = 2
    /\ rd[1].kind = "get" /\ rd[1].pc = "index_locked" /\ rd[1].h = indexes[2]
    /\ rd[2].kind = "keys" /\ rd[2].pc = "index_locked" /\ rd[2].h = indexes[1]
    /\ ~ENABLED InsertAtIndex

====
